---------------------------- MODULE Spec2Model ----------------------------
(***************************************************************************)
(* Model of the interactive-test frame loop (src/interactive-test/src/     *)
(* main.rs) and of its event translation layer (iced_conversion.rs).       *)
(*                                                                         *)
(* Numbers.  Physical sizes and physical cursor positions are integers.    *)
(* Scale factors are powers of two, so that the f64 division performed by  *)
(* to_logical is exact and a logical quantity is a dyadic rational         *)
(* [n |-> numerator, d |-> denominator], kept in lowest terms.  The cast   *)
(* `as f32` rounds such a rational to a 24-bit significand.                *)
(*                                                                         *)
(* Option<T> is modelled as a sequence of length at most one: None is <<>> *)
(* and Some(x) is <<x>>.                                                   *)
(***************************************************************************)
EXTENDS Integers, Sequences, FiniteSets, TLC

(***************************************************************************)
(* Bounds of the model.                                                    *)
(***************************************************************************)
\* Largest number of window events the platform delivers in one batch.
MaxBatch == 2
\* Scale factors are 2^0 .. 2^MaxScaleExp.
MaxScaleExp == 1
\* Physical window widths and heights range over 1 .. MaxDim.
MaxDim == 2
\* Characters within CharRadius code points of a private-use boundary.
CharRadius == 2
\* Numbered mouse buttons Other(0) .. Other(MaxOtherButton).
MaxOtherButton == 1

(***************************************************************************)
(* Arithmetic helpers.                                                     *)
(***************************************************************************)
Abs(i) == IF i < 0 THEN -i ELSE i

RECURSIVE Pow2(_)
Pow2(k) == IF k = 0 THEN 1 ELSE 2 * Pow2(k - 1)

RECURSIVE GCD(_, _)
GCD(a, b) == IF b = 0 THEN a ELSE GCD(b, a % b)

\* The rational n/d (d > 0) in lowest terms.
Rat(n, d) ==
  LET g == GCD(Abs(n), d)
  IN  IF n = 0 THEN [n |-> 0, d |-> 1]
      ELSE [n |-> (IF n < 0 THEN -1 ELSE 1) * (Abs(n) \div g), d |-> d \div g]

\* An integer as a rational.
FromInt(i) == [n |-> i, d |-> 1]

None == << >>
Some(x) == << x >>
IsSome(o) == Len(o) = 1
Unwrap(o) == o[1]

(***************************************************************************)
(* Data of the platform (winit) and of the abstract UI toolkit (iced).     *)
(***************************************************************************)
ScaleFactors == { Pow2(k) : k \in 0 .. MaxScaleExp }

PhysicalSizes == [width : 1 .. MaxDim, height : 1 .. MaxDim]

\* Rust's char: a Unicode scalar value (no surrogate code points).
IsChar(c) == c \in 0 .. 1114111 /\ ~(c \in 55296 .. 57343)

ElementState == {"Pressed", "Released"}

\* winit::event::ModifiersState is a set of flags.
ModifierFlags == {"SHIFT", "CTRL", "ALT", "LOGO"}

\* winit::event::MouseButton
MouseButtons ==
  {<<"Left">>, <<"Right">>, <<"Middle">>}
    \cup { <<"Other", n>> : n \in 0 .. MaxOtherButton }

\* iced_native::mouse::Interaction
Interaction ==
  {"Idle", "Pointer", "Working", "Grab", "Grabbing", "Crosshair", "Text",
   "ResizingHorizontally", "ResizingVertically"}

\* winit::event::VirtualKeyCode, as enumerated by the match of key_code.
VirtualKeyCode ==
  {
    "Key1", "Key2", "Key3", "Key4", "Key5", "Key6", "Key7", "Key8", "Key9",
    "Key0", "A", "B", "C", "D", "E", "F", "G", "H", "I", "J", "K", "L", "M",
    "N", "O", "P", "Q", "R", "S", "T", "U", "V", "W", "X", "Y", "Z",
    "Escape", "F1", "F2", "F3", "F4", "F5", "F6", "F7", "F8", "F9", "F10",
    "F11", "F12", "F13", "F14", "F15", "F16", "F17", "F18", "F19", "F20",
    "F21", "F22", "F23", "F24", "Snapshot", "Scroll", "Pause", "Insert",
    "Home", "Delete", "End", "PageDown", "PageUp", "Left", "Up", "Right",
    "Down", "Back", "Return", "Space", "Compose", "Caret", "Numlock",
    "Numpad0", "Numpad1", "Numpad2", "Numpad3", "Numpad4", "Numpad5",
    "Numpad6", "Numpad7", "Numpad8", "Numpad9", "AbntC1", "AbntC2",
    "NumpadAdd", "Apostrophe", "Apps", "At", "Ax", "Backslash", "Calculator",
    "Capital", "Colon", "Comma", "Convert", "NumpadDecimal", "NumpadDivide",
    "Equals", "Grave", "Kana", "Kanji", "LAlt", "LBracket", "LControl",
    "LShift", "LWin", "Mail", "MediaSelect", "MediaStop", "Minus",
    "NumpadMultiply", "Mute", "MyComputer", "NavigateForward",
    "NavigateBackward", "NextTrack", "NoConvert", "NumpadComma",
    "NumpadEnter", "NumpadEquals", "OEM102", "Period", "PlayPause", "Power",
    "PrevTrack", "RAlt", "RBracket", "RControl", "RShift", "RWin",
    "Semicolon", "Slash", "Sleep", "Stop", "NumpadSubtract", "Sysrq", "Tab",
    "Underline", "Unlabeled", "VolumeDown", "VolumeUp", "Wake", "WebBack",
    "WebFavorites", "WebForward", "WebHome", "WebRefresh", "WebSearch",
    "WebStop", "Yen", "Copy", "Paste", "Cut", "Asterisk", "Plus"
  }

(***************************************************************************)
(* iced_conversion.rs                                                      *)
(***************************************************************************)
\* Significand width of an f32, the target of `as f32`.
F32_MANTISSA_DIGITS == 24

\* Smallest e >= 0 with a < 2^(F32_MANTISSA_DIGITS + e).
RECURSIVE ExcessBits(_)
ExcessBits(a) ==
  IF a < Pow2(F32_MANTISSA_DIGITS) THEN 0 ELSE 1 + ExcessBits(a \div 2)

\* `r as f32` for a dyadic rational r: round to nearest, ties to even, on a
\* 24-bit significand (the exponent range of f32 is never left here).
AsF32(r) ==
  LET a    == Abs(r.n)
      e    == ExcessBits(a)
      q    == a \div Pow2(e)
      rem  == a % Pow2(e)
      half == Pow2(e) \div 2
      m    == IF rem > half \/ (rem = half /\ q % 2 = 1) THEN q + 1 ELSE q
  IN  IF e = 0 THEN r
      ELSE Rat((IF r.n < 0 THEN -1 ELSE 1) * m * Pow2(e), r.d)

\* winit::dpi: PhysicalSize::to_logical / PhysicalPosition::to_logical of one
\* coordinate: the physical quantity divided by the scale factor.
to_logical(physical, scale_factor) == Rat(physical, scale_factor)

\* Line 332: the three private-use ranges.
PUA_BMP_FIRST == 57344
PUA_BMP_LAST == 63743
PUA_A_FIRST == 983040
PUA_A_LAST == 1048573
PUA_B_FIRST == 1048576
PUA_B_LAST == 1114109

\* Ranges that leave out their last code point.
is_private_use_character_open_ended(c) ==
  \/ c \in PUA_BMP_FIRST .. (PUA_BMP_LAST - 1)
  \/ c \in PUA_A_FIRST .. (PUA_A_LAST - 1)
  \/ c \in PUA_B_FIRST .. (PUA_B_LAST - 1)

is_private_use_character(c) ==
  \/ c \in PUA_BMP_FIRST .. PUA_BMP_LAST
  \/ c \in PUA_A_FIRST .. PUA_A_LAST
  \/ c \in PUA_B_FIRST .. PUA_B_LAST

key_code(virtual_keycode) ==
  CASE virtual_keycode = "Key1" -> Some("Key1")
    [] virtual_keycode = "Key2" -> Some("Key2")
    [] virtual_keycode = "Key3" -> Some("Key3")
    [] virtual_keycode = "Key4" -> Some("Key4")
    [] virtual_keycode = "Key5" -> Some("Key5")
    [] virtual_keycode = "Key6" -> Some("Key6")
    [] virtual_keycode = "Key7" -> Some("Key7")
    [] virtual_keycode = "Key8" -> Some("Key8")
    [] virtual_keycode = "Key9" -> Some("Key9")
    [] virtual_keycode = "Key0" -> Some("Key0")
    [] virtual_keycode = "A" -> Some("A")
    [] virtual_keycode = "B" -> Some("B")
    [] virtual_keycode = "C" -> Some("C")
    [] virtual_keycode = "D" -> Some("D")
    [] virtual_keycode = "E" -> Some("E")
    [] virtual_keycode = "F" -> Some("F")
    [] virtual_keycode = "G" -> Some("G")
    [] virtual_keycode = "H" -> Some("H")
    [] virtual_keycode = "I" -> Some("I")
    [] virtual_keycode = "J" -> Some("J")
    [] virtual_keycode = "K" -> Some("K")
    [] virtual_keycode = "L" -> Some("L")
    [] virtual_keycode = "M" -> Some("M")
    [] virtual_keycode = "N" -> Some("N")
    [] virtual_keycode = "O" -> Some("O")
    [] virtual_keycode = "P" -> Some("P")
    [] virtual_keycode = "Q" -> Some("Q")
    [] virtual_keycode = "R" -> Some("R")
    [] virtual_keycode = "S" -> Some("S")
    [] virtual_keycode = "T" -> Some("T")
    [] virtual_keycode = "U" -> Some("U")
    [] virtual_keycode = "V" -> Some("V")
    [] virtual_keycode = "W" -> Some("W")
    [] virtual_keycode = "X" -> Some("X")
    [] virtual_keycode = "Y" -> Some("Y")
    [] virtual_keycode = "Z" -> Some("Z")
    [] virtual_keycode = "Escape" -> Some("Escape")
    [] virtual_keycode = "F1" -> Some("F1")
    [] virtual_keycode = "F2" -> Some("F2")
    [] virtual_keycode = "F3" -> Some("F3")
    [] virtual_keycode = "F4" -> Some("F4")
    [] virtual_keycode = "F5" -> Some("F5")
    [] virtual_keycode = "F6" -> Some("F6")
    [] virtual_keycode = "F7" -> Some("F7")
    [] virtual_keycode = "F8" -> Some("F8")
    [] virtual_keycode = "F9" -> Some("F9")
    [] virtual_keycode = "F10" -> Some("F10")
    [] virtual_keycode = "F11" -> Some("F11")
    [] virtual_keycode = "F12" -> Some("F12")
    [] virtual_keycode = "F13" -> Some("F13")
    [] virtual_keycode = "F14" -> Some("F14")
    [] virtual_keycode = "F15" -> Some("F15")
    [] virtual_keycode = "F16" -> Some("F16")
    [] virtual_keycode = "F17" -> Some("F17")
    [] virtual_keycode = "F18" -> Some("F18")
    [] virtual_keycode = "F19" -> Some("F19")
    [] virtual_keycode = "F20" -> Some("F20")
    [] virtual_keycode = "F21" -> Some("F21")
    [] virtual_keycode = "F22" -> Some("F22")
    [] virtual_keycode = "F23" -> Some("F23")
    [] virtual_keycode = "F24" -> Some("F24")
    [] virtual_keycode = "Snapshot" -> Some("Snapshot")
    [] virtual_keycode = "Scroll" -> Some("Scroll")
    [] virtual_keycode = "Pause" -> Some("Pause")
    [] virtual_keycode = "Insert" -> Some("Insert")
    [] virtual_keycode = "Home" -> Some("Home")
    [] virtual_keycode = "Delete" -> Some("Delete")
    [] virtual_keycode = "End" -> Some("End")
    [] virtual_keycode = "PageDown" -> Some("PageDown")
    [] virtual_keycode = "PageUp" -> Some("PageUp")
    [] virtual_keycode = "Left" -> Some("Left")
    [] virtual_keycode = "Up" -> Some("Up")
    [] virtual_keycode = "Right" -> Some("Right")
    [] virtual_keycode = "Down" -> Some("Down")
    [] virtual_keycode = "Back" -> Some("Backspace")
    [] virtual_keycode = "Return" -> Some("Enter")
    [] virtual_keycode = "Space" -> Some("Space")
    [] virtual_keycode = "Compose" -> Some("Compose")
    [] virtual_keycode = "Caret" -> Some("Caret")
    [] virtual_keycode = "Numlock" -> Some("Numlock")
    [] virtual_keycode = "Numpad0" -> Some("Numpad0")
    [] virtual_keycode = "Numpad1" -> Some("Numpad1")
    [] virtual_keycode = "Numpad2" -> Some("Numpad2")
    [] virtual_keycode = "Numpad3" -> Some("Numpad3")
    [] virtual_keycode = "Numpad4" -> Some("Numpad4")
    [] virtual_keycode = "Numpad5" -> Some("Numpad5")
    [] virtual_keycode = "Numpad6" -> Some("Numpad6")
    [] virtual_keycode = "Numpad7" -> Some("Numpad7")
    [] virtual_keycode = "Numpad8" -> Some("Numpad8")
    [] virtual_keycode = "Numpad9" -> Some("Numpad9")
    [] virtual_keycode = "AbntC1" -> Some("AbntC1")
    [] virtual_keycode = "AbntC2" -> Some("AbntC2")
    [] virtual_keycode = "NumpadAdd" -> Some("NumpadAdd")
    [] virtual_keycode = "Apostrophe" -> Some("Apostrophe")
    [] virtual_keycode = "Apps" -> Some("Apps")
    [] virtual_keycode = "At" -> Some("At")
    [] virtual_keycode = "Ax" -> Some("Ax")
    [] virtual_keycode = "Backslash" -> Some("Backslash")
    [] virtual_keycode = "Calculator" -> Some("Calculator")
    [] virtual_keycode = "Capital" -> Some("Capital")
    [] virtual_keycode = "Colon" -> Some("Colon")
    [] virtual_keycode = "Comma" -> Some("Comma")
    [] virtual_keycode = "Convert" -> Some("Convert")
    [] virtual_keycode = "NumpadDecimal" -> Some("NumpadDecimal")
    [] virtual_keycode = "NumpadDivide" -> Some("NumpadDivide")
    [] virtual_keycode = "Equals" -> Some("Equals")
    [] virtual_keycode = "Grave" -> Some("Grave")
    [] virtual_keycode = "Kana" -> Some("Kana")
    [] virtual_keycode = "Kanji" -> Some("Kanji")
    [] virtual_keycode = "LAlt" -> Some("LAlt")
    [] virtual_keycode = "LBracket" -> Some("LBracket")
    [] virtual_keycode = "LControl" -> Some("LControl")
    [] virtual_keycode = "LShift" -> Some("LShift")
    [] virtual_keycode = "LWin" -> Some("LWin")
    [] virtual_keycode = "Mail" -> Some("Mail")
    [] virtual_keycode = "MediaSelect" -> Some("MediaSelect")
    [] virtual_keycode = "MediaStop" -> Some("MediaStop")
    [] virtual_keycode = "Minus" -> Some("Minus")
    [] virtual_keycode = "NumpadMultiply" -> Some("NumpadMultiply")
    [] virtual_keycode = "Mute" -> Some("Mute")
    [] virtual_keycode = "MyComputer" -> Some("MyComputer")
    [] virtual_keycode = "NavigateForward" -> Some("NavigateForward")
    [] virtual_keycode = "NavigateBackward" -> Some("NavigateBackward")
    [] virtual_keycode = "NextTrack" -> Some("NextTrack")
    [] virtual_keycode = "NoConvert" -> Some("NoConvert")
    [] virtual_keycode = "NumpadComma" -> Some("NumpadComma")
    [] virtual_keycode = "NumpadEnter" -> Some("NumpadEnter")
    [] virtual_keycode = "NumpadEquals" -> Some("NumpadEquals")
    [] virtual_keycode = "OEM102" -> Some("OEM102")
    [] virtual_keycode = "Period" -> Some("Period")
    [] virtual_keycode = "PlayPause" -> Some("PlayPause")
    [] virtual_keycode = "Power" -> Some("Power")
    [] virtual_keycode = "PrevTrack" -> Some("PrevTrack")
    [] virtual_keycode = "RAlt" -> Some("RAlt")
    [] virtual_keycode = "RBracket" -> Some("RBracket")
    [] virtual_keycode = "RControl" -> Some("RControl")
    [] virtual_keycode = "RShift" -> Some("RShift")
    [] virtual_keycode = "RWin" -> Some("RWin")
    [] virtual_keycode = "Semicolon" -> Some("Semicolon")
    [] virtual_keycode = "Slash" -> Some("Slash")
    [] virtual_keycode = "Sleep" -> Some("Sleep")
    [] virtual_keycode = "Stop" -> Some("Stop")
    [] virtual_keycode = "NumpadSubtract" -> Some("NumpadSubtract")
    [] virtual_keycode = "Sysrq" -> Some("Sysrq")
    [] virtual_keycode = "Tab" -> Some("Tab")
    [] virtual_keycode = "Underline" -> Some("Underline")
    [] virtual_keycode = "Unlabeled" -> Some("Unlabeled")
    [] virtual_keycode = "VolumeDown" -> Some("VolumeDown")
    [] virtual_keycode = "VolumeUp" -> Some("VolumeUp")
    [] virtual_keycode = "Wake" -> Some("Wake")
    [] virtual_keycode = "WebBack" -> Some("WebBack")
    [] virtual_keycode = "WebFavorites" -> Some("WebFavorites")
    [] virtual_keycode = "WebForward" -> Some("WebForward")
    [] virtual_keycode = "WebHome" -> Some("WebHome")
    [] virtual_keycode = "WebRefresh" -> Some("WebRefresh")
    [] virtual_keycode = "WebSearch" -> Some("WebSearch")
    [] virtual_keycode = "WebStop" -> Some("WebStop")
    [] virtual_keycode = "Yen" -> Some("Yen")
    [] virtual_keycode = "Copy" -> Some("Copy")
    [] virtual_keycode = "Paste" -> Some("Paste")
    [] virtual_keycode = "Cut" -> Some("Cut")
    [] virtual_keycode = "Asterisk" -> None
    [] virtual_keycode = "Plus" -> None

\* A mouse_button that forgets the number of a numbered button.
mouse_button_unnumbered(mouse_button_) ==
  CASE mouse_button_[1] = "Left" -> <<"Left">>
    [] mouse_button_[1] = "Right" -> <<"Right">>
    [] mouse_button_[1] = "Middle" -> <<"Middle">>
    [] mouse_button_[1] = "Other" -> <<"Other", 0>>

mouse_button(mouse_button_) ==
  CASE mouse_button_[1] = "Left" -> <<"Left">>
    [] mouse_button_[1] = "Right" -> <<"Right">>
    [] mouse_button_[1] = "Middle" -> <<"Middle">>
    [] mouse_button_[1] = "Other" -> <<"Other", mouse_button_[2]>>

modifiers_state(modifiers_) ==
  [shift   |-> "SHIFT" \in modifiers_,
   control |-> "CTRL" \in modifiers_,
   alt     |-> "ALT" \in modifiers_,
   logo    |-> "LOGO" \in modifiers_]

\* A cursor_position that returns the physical position.
iced_conversion_cursor_position_physical(position, scale_factor) ==
  [x |-> FromInt(position.x), y |-> FromInt(position.y)]

iced_conversion_cursor_position(position, scale_factor) ==
  [x |-> to_logical(position.x, scale_factor),
   y |-> to_logical(position.y, scale_factor)]

\* A table whose Pointer arm was copied from the Idle arm.
mouse_interaction_copied_arm(interaction) ==
  CASE interaction = "Idle" -> "Default"
    [] interaction = "Pointer" -> "Default"
    [] interaction = "Working" -> "Progress"
    [] interaction = "Grab" -> "Grab"
    [] interaction = "Grabbing" -> "Grabbing"
    [] interaction = "Crosshair" -> "Crosshair"
    [] interaction = "Text" -> "Text"
    [] interaction = "ResizingHorizontally" -> "EwResize"
    [] interaction = "ResizingVertically" -> "NsResize"

mouse_interaction(interaction) ==
  CASE interaction = "Idle" -> "Default"
    [] interaction = "Pointer" -> "Hand"
    [] interaction = "Working" -> "Progress"
    [] interaction = "Grab" -> "Grab"
    [] interaction = "Grabbing" -> "Grabbing"
    [] interaction = "Crosshair" -> "Crosshair"
    [] interaction = "Text" -> "Text"
    [] interaction = "ResizingHorizontally" -> "EwResize"
    [] interaction = "ResizingVertically" -> "NsResize"

\* A Resized arm that passes the physical size on.
window_event_Resized_physical(new_size, scale_factor) ==
  Some([kind   |-> "Window.Resized",
        width  |-> FromInt(new_size.width),
        height |-> FromInt(new_size.height)])

\* The arms of window_event, one operator each.
window_event_Resized(new_size, scale_factor) ==
  Some([kind   |-> "Window.Resized",
        width  |-> to_logical(new_size.width, scale_factor),
        height |-> to_logical(new_size.height, scale_factor)])

window_event_CursorMoved(position, scale_factor) ==
  Some([kind |-> "Mouse.CursorMoved",
        x    |-> AsF32(to_logical(position.x, scale_factor)),
        y    |-> AsF32(to_logical(position.y, scale_factor))])

window_event_MouseInput(button, state) ==
  Some(IF state = "Pressed"
       THEN [kind |-> "Mouse.ButtonPressed", button |-> mouse_button(button)]
       ELSE [kind |-> "Mouse.ButtonReleased", button |-> mouse_button(button)])

\* A MouseWheel arm that reports every delta in lines.
window_event_MouseWheel_all_lines(delta) ==
  Some([kind  |-> "Mouse.WheelScrolled",
        delta |-> [unit |-> "Lines", x |-> AsF32(delta.x), y |-> AsF32(delta.y)]])

window_event_MouseWheel(delta) ==
  IF delta.unit = "LineDelta"
  THEN Some([kind  |-> "Mouse.WheelScrolled",
             delta |-> [unit |-> "Lines", x |-> delta.x, y |-> delta.y]])
  ELSE Some([kind  |-> "Mouse.WheelScrolled",
             delta |-> [unit |-> "Pixels",
                        x    |-> AsF32(delta.x),
                        y    |-> AsF32(delta.y)]])

\* A KeyboardInput arm with the two element states exchanged.
window_event_KeyboardInput_swapped(virtual_keycode, state, modifiers_) ==
  IF IsSome(key_code(virtual_keycode))
  THEN Some(IF state = "Pressed"
            THEN [kind      |-> "Keyboard.KeyReleased",
                  key_code  |-> Unwrap(key_code(virtual_keycode)),
                  modifiers |-> modifiers_state(modifiers_)]
            ELSE [kind      |-> "Keyboard.KeyPressed",
                  key_code  |-> Unwrap(key_code(virtual_keycode)),
                  modifiers |-> modifiers_state(modifiers_)])
  ELSE None

window_event_KeyboardInput(virtual_keycode, state, modifiers_) ==
  IF IsSome(key_code(virtual_keycode))
  THEN Some(IF state = "Pressed"
            THEN [kind      |-> "Keyboard.KeyPressed",
                  key_code  |-> Unwrap(key_code(virtual_keycode)),
                  modifiers |-> modifiers_state(modifiers_)]
            ELSE [kind      |-> "Keyboard.KeyReleased",
                  key_code  |-> Unwrap(key_code(virtual_keycode)),
                  modifiers |-> modifiers_state(modifiers_)])
  ELSE None

\* Converts a winit window event into an iced event.
window_event(event, scale_factor, modifiers_) ==
  CASE event.kind = "Resized" ->
         window_event_Resized(event.size, scale_factor)
    [] event.kind = "ScaleFactorChanged" ->
         window_event_Resized(event.new_inner_size, scale_factor)
    [] event.kind = "CursorMoved" ->
         window_event_CursorMoved(event.position, scale_factor)
    [] event.kind = "MouseInput" ->
         window_event_MouseInput(event.button, event.state)
    [] event.kind = "MouseWheel" ->
         window_event_MouseWheel(event.delta)
    [] event.kind = "ReceivedCharacter" /\ ~is_private_use_character(event.c) ->
         Some([kind |-> "Keyboard.CharacterReceived", c |-> event.c])
    [] event.kind = "KeyboardInput" /\ IsSome(event.virtual_keycode) ->
         window_event_KeyboardInput(Unwrap(event.virtual_keycode),
                                    event.state, modifiers_)
    [] event.kind = "ModifiersChanged" ->
         Some([kind      |-> "Keyboard.ModifiersChanged",
               modifiers |-> modifiers_state(event.modifiers)])
    [] event.kind = "HoveredFile" ->
         Some([kind |-> "Window.FileHovered", path |-> event.path])
    [] event.kind = "DroppedFile" ->
         Some([kind |-> "Window.FileDropped", path |-> event.path])
    [] event.kind = "HoveredFileCancelled" ->
         Some([kind |-> "Window.FilesHoveredLeft"])
    [] OTHER -> None

(***************************************************************************)
(* Collaborators of the frame loop that live outside src/.                 *)
(***************************************************************************)
\* iced Viewport::with_physical_size and Viewport::logical_size.
with_physical_size(physical_size, scale_factor) ==
  [physical_size |-> physical_size, scale_factor |-> scale_factor]

logical_size(viewport_) ==
  [width  |-> to_logical(viewport_.physical_size.width, viewport_.scale_factor),
   height |-> to_logical(viewport_.physical_size.height, viewport_.scale_factor)]

\* iced program::State: the queue of events awaiting the next update.
queue_event(queue, event) == Append(queue, event)

is_queue_empty(queue) == queue = << >>

\* PixelBufferTyped::new_supported and DrawTarget::new: storage of the given
\* dimensions.
new_supported(width, height) == [width |-> width, height |-> height]

DrawTarget_new(width, height) == [width |-> width, height |-> height]

(***************************************************************************)
(* Platform events fed to the frame loop.                                  *)
(***************************************************************************)
\* The loop model is driven with a few values of each kind; the translation
\* of every value is checked on its own under SpecConv.
WindowSizes == { [width |-> 2, height |-> 1], [width |-> 3, height |-> 2] }

LoopScaleFactors == { 1, 2 }

CursorPositions == { [x |-> 1, y |-> 2], [x |-> 4, y |-> 3] }

\* Two flag sets that tell the four flags apart: each flag is in a different
\* combination of the two.
LoopModifiers == { {"SHIFT", "ALT"}, {"CTRL", "ALT"} }

\* A mapped key identity, an unmapped one, and the absent identity.
LoopKeys == { Some("Back"), Some("Asterisk"), None }

\* The scale-factor changes of the loop model, each with the new inner size
\* the platform suggests for it.
LoopScaleChanges ==
  { [scale_factor |-> 1, new_inner_size |-> [width |-> 3, height |-> 2]],
    [scale_factor |-> 2, new_inner_size |-> [width |-> 2, height |-> 1]] }

\* The window events of one kind each that the loop model is driven with.
LoopWindowEvents ==
  { [kind |-> "CursorMoved", position |-> p] : p \in CursorPositions }
    \cup { [kind |-> "ModifiersChanged", modifiers |-> m] : m \in LoopModifiers }
    \cup { [kind |-> "Resized", size |-> s] : s \in WindowSizes }
    \cup { [kind |-> "ScaleFactorChanged", scale_factor |-> c.scale_factor,
             new_inner_size |-> c.new_inner_size] : c \in LoopScaleChanges }
    \cup { [kind |-> "CloseRequested"] }
    \cup { [kind |-> "KeyboardInput", virtual_keycode |-> k, state |-> "Released"] :
             k \in LoopKeys }
    \cup { [kind |-> "ReceivedCharacter", c |-> PUA_BMP_FIRST] }
    \cup { [kind |-> "Focused", focused |-> TRUE] }

\* The interaction hint the rasterizer returns in the loop model.
LoopInteractions == {"Text"}

(***************************************************************************)
(* State.                                                                  *)
(***************************************************************************)
VARIABLES
  \* main.rs: the state captured by the event-loop closure
  size,             \* PhysicalSize<u32> last taken from a Resized event
  viewport,         \* Viewport: physical size and scale factor
  cursor_position,  \* PhysicalPosition<f64>
  modifiers,        \* winit ModifiersState
  pixbuf,           \* dimensions of the presentation buffer
  draw_target,      \* dimensions of the rasterizer's draw target
  resized,          \* the dirty flag
  queued_events,    \* the event queue of the application state
  control_flow,     \* the value the callback leaves in *control_flow
  \* the window and the event loop
  scale_factor,     \* window.scale_factor()
  inner_size,       \* window.inner_size()
  redraw_requested, \* a request_redraw is outstanding
  cursor_icon,      \* the icon last given to set_cursor_icon
  phase,            \* "intake", "render" or "terminated"
  \* observations of the run (history variables)
  handled,          \* the event the latest callback invocation handled
  batch,            \* window events since the previous events-cleared signal,
                    \* each with the scale factor and modifiers it was translated under
  batch_closed,     \* the events-cleared signal of `batch` has been handled
  drained,          \* the events the latest callback handed to update
  update_args,      \* the viewport size and cursor position it passed to update
  update_calls,     \* update calls made by the latest callback
  redraw_requests,  \* request_redraw calls made by the latest callback
  reallocations,    \* reallocations of pixbuf and draw_target by the latest callback
  resizes,          \* sizes of the Resized events since the previous render phase
  render_resizes,   \* `resizes` as the latest render phase found it
  updated,          \* an update call happened since the previous render phase
  render_updated,   \* `updated` as the latest render phase found it
  closed,           \* a CloseRequested event has been handled
  reported_modifiers, \* the flags of the latest ModifiersChanged event
  reported_cursor,  \* the position of the latest CursorMoved event
  \* the translation layer applied on its own
  conv_in,          \* the conversion and its arguments
  conv_done,        \* the conversion has been applied
  conv_out,         \* its result
  \* the pixel copy of the render phase applied on its own
  copy_in,          \* size, backing buffer and draw target before the copy
  copy_done,        \* the copy has been made
  copy_out          \* the backing buffer after it, and the writes made

loop_vars ==
  <<size, viewport, cursor_position, modifiers, pixbuf, draw_target, resized,
    queued_events, control_flow>>

window_vars == <<scale_factor, inner_size, redraw_requested, cursor_icon, phase>>

history_vars ==
  <<handled, batch, batch_closed, drained, update_args, update_calls,
    redraw_requests, reallocations, resizes, render_resizes, updated,
    render_updated, closed, reported_modifiers, reported_cursor>>

conv_vars == <<conv_in, conv_done, conv_out>>

copy_vars == <<copy_in, copy_done, copy_out>>

vars == <<loop_vars, window_vars, history_vars, conv_vars, copy_vars>>

\* main.rs lines 20-46: the state after construction, for a window of physical
\* size s at scale factor f.
InitLoop(s, f) ==
  /\ size = s
  /\ viewport = with_physical_size(s, f)
  /\ cursor_position = [x |-> -1, y |-> -1]
  /\ modifiers = {}
  /\ pixbuf = new_supported(s.width, s.height)
  /\ draw_target = DrawTarget_new(s.width, s.height)
  /\ resized = FALSE
  /\ queued_events = << >>
  /\ control_flow = "Poll"
  /\ scale_factor = f
  /\ inner_size = s
  /\ redraw_requested = FALSE
  /\ cursor_icon = "Default"
  /\ phase = "intake"
  /\ handled = [kind |-> "NewEvents"]
  /\ batch = << >>
  /\ batch_closed = FALSE
  /\ drained = << >>
  /\ update_args = << >>
  /\ update_calls = 0
  /\ redraw_requests = 0
  /\ reallocations = 0
  /\ resizes = << >>
  /\ render_resizes = << >>
  /\ updated = FALSE
  /\ render_updated = FALSE
  /\ closed = FALSE
  /\ reported_modifiers = {}
  /\ reported_cursor = [x |-> -1, y |-> -1]

Init ==
  /\ \E s \in WindowSizes, f \in LoopScaleFactors : InitLoop(s, f)
  /\ conv_in = [op |-> "none"]
  /\ conv_done = FALSE
  /\ conv_out = << >>
  /\ copy_in = [op |-> "none"]
  /\ copy_done = FALSE
  /\ copy_out = << >>

(***************************************************************************)
(* main.rs lines 48-80: the callback on a window event.                    *)
(***************************************************************************)
cursor_position_arm(event, old) ==
  IF event.kind = "CursorMoved" THEN event.position ELSE old

\* A ModifiersChanged arm that adds the new flags to the tracked ones.
modifiers_arm_merging(event, old) ==
  IF event.kind = "ModifiersChanged" THEN old \cup event.modifiers ELSE old

modifiers_arm(event, old) ==
  IF event.kind = "ModifiersChanged" THEN event.modifiers ELSE old

viewport_arm(event, old, window_scale_factor) ==
  IF event.kind = "Resized"
  THEN with_physical_size(event.size, window_scale_factor)
  ELSE old

size_arm(event, old) ==
  IF event.kind = "Resized" THEN event.size ELSE old

\* A Resized arm that forgets to set the dirty flag.
resized_arm_never_set(event, old) == old

resized_arm(event, old) ==
  IF event.kind = "Resized" THEN TRUE ELSE old

\* A CloseRequested arm that leaves the control flow at Wait.
control_flow_arm_no_exit(event) == "Wait"

control_flow_arm(event) ==
  IF event.kind = "CloseRequested" THEN "Exit" ELSE "Wait"

\* A queue_event that puts the new event in front of the pending ones.
queue_arm_in_front(event, queue, window_scale_factor, modifiers_) ==
  window_event(event, window_scale_factor, modifiers_) \o queue

\* A queue_event that overwrites the pending events with the new one.
queue_arm_overwriting(event, queue, window_scale_factor, modifiers_) ==
  LET translated == window_event(event, window_scale_factor, modifiers_)
  IN  IF IsSome(translated) THEN translated ELSE queue

\* Lines 75-79: translate under the window's scale factor and the tracked
\* modifiers, and queue what the translation yields.
queue_arm(event, queue, window_scale_factor, modifiers_) ==
  LET translated == window_event(event, window_scale_factor, modifiers_)
  IN  IF IsSome(translated) THEN queue_event(queue, Unwrap(translated)) ELSE queue

\* The event loop stops calling back once the callback has left Exit.
PhaseAfter(control_flow_, otherwise) ==
  IF control_flow_ = "Exit" THEN "terminated" ELSE otherwise

\* What the window reports after the platform has delivered `event`.
WindowScaleAfter(event, old) ==
  IF event.kind = "ScaleFactorChanged" THEN event.scale_factor ELSE old

WindowSizeAfter(event, old) ==
  CASE event.kind = "Resized" -> event.size
    [] event.kind = "ScaleFactorChanged" -> event.new_inner_size
    [] OTHER -> old

WindowEvent(event) ==
  LET f == WindowScaleAfter(event, scale_factor)
      m == modifiers_arm(event, modifiers)
      open == IF batch_closed THEN << >> ELSE batch
  IN  /\ phase = "intake"
      /\ Len(open) < MaxBatch
      /\ event.kind = "ScaleFactorChanged" => event.scale_factor # scale_factor
      /\ scale_factor' = f
      /\ inner_size' = WindowSizeAfter(event, inner_size)
      /\ cursor_position' = cursor_position_arm(event, cursor_position)
      /\ modifiers' = m
      /\ viewport' = viewport_arm(event, viewport, f)
      /\ size' = size_arm(event, size)
      /\ resized' = resized_arm(event, resized)
      /\ control_flow' = control_flow_arm(event)
      /\ queued_events' = queue_arm(event, queued_events, f, m)
      /\ phase' = PhaseAfter(control_flow', "intake")
      /\ handled' = event
      /\ batch' = Append(open, [event |-> event, scale_factor |-> f, modifiers |-> m])
      /\ batch_closed' = FALSE
      /\ drained' = << >>
      /\ update_args' = << >>
      /\ update_calls' = 0
      /\ redraw_requests' = 0
      /\ reallocations' = 0
      /\ resizes' = IF event.kind = "Resized" THEN Append(resizes, event.size) ELSE resizes
      /\ closed' = (closed \/ event.kind = "CloseRequested")
      /\ reported_modifiers' =
           IF event.kind = "ModifiersChanged" THEN event.modifiers
           ELSE reported_modifiers
      /\ reported_cursor' =
           IF event.kind = "CursorMoved" THEN event.position ELSE reported_cursor
      /\ UNCHANGED <<pixbuf, draw_target, redraw_requested, cursor_icon,
                     render_resizes, updated, render_updated, conv_vars, copy_vars>>

(***************************************************************************)
(* main.rs lines 81-93: the callback on the events-cleared signal.         *)
(***************************************************************************)
\* An update phase that does not look at the queue.
update_due_always(queue) == TRUE

\* An update that is skipped when a single event is queued.
update_due_several(queue) == Len(queue) > 1

\* Line 82: the update phase runs only on a non-empty queue.
update_due(queue) == ~is_queue_empty(queue)

\* Lines 83-89: state.update drains the whole queue in one call.
queue_after_update(queue) == << >>

\* An update phase that forgets the request_redraw.
request_redraw_due_never(queue) == FALSE

\* A request_redraw moved out of the if.
request_redraw_due_always(queue) == TRUE

\* Line 91: request_redraw sits inside the same if as the update call.
request_redraw_due(queue) == ~is_queue_empty(queue)

MainEventsCleared ==
  /\ phase = "intake"
  /\ control_flow' = "Wait"
  /\ IF update_due(queued_events)
     THEN /\ drained' = queued_events
          /\ update_args' =
               <<[viewport_size |-> logical_size(viewport),
                  cursor_position |->
                    iced_conversion_cursor_position(cursor_position,
                                                    viewport.scale_factor)]>>
          /\ queued_events' = queue_after_update(queued_events)
          /\ update_calls' = 1
          /\ updated' = TRUE
     ELSE /\ drained' = << >>
          /\ update_args' = << >>
          /\ update_calls' = 0
          /\ UNCHANGED <<queued_events, updated>>
  /\ IF request_redraw_due(queued_events)
     THEN /\ redraw_requests' = 1
          /\ redraw_requested' = TRUE
     ELSE /\ redraw_requests' = 0
          /\ UNCHANGED redraw_requested
  /\ phase' = PhaseAfter(control_flow', IF redraw_requested' THEN "render" ELSE "intake")
  /\ handled' = [kind |-> "MainEventsCleared"]
  /\ batch' = IF batch_closed THEN << >> ELSE batch
  /\ batch_closed' = TRUE
  /\ reallocations' = 0
  /\ UNCHANGED <<size, viewport, cursor_position, modifiers, pixbuf, draw_target,
                 resized, scale_factor, inner_size, cursor_icon, resizes,
                 render_resizes, render_updated, closed, reported_modifiers,
                 reported_cursor, conv_vars, copy_vars>>

(***************************************************************************)
(* main.rs lines 94-131: the callback on RedrawRequested.                  *)
(***************************************************************************)
\* Line 95: reallocate only when the dirty flag is set.
\* A render phase that never reallocates.
reallocation_due_never(resized_) == FALSE

\* A render phase that reallocates whether or not the flag is set.
reallocation_due_always(resized_) == TRUE

reallocation_due(resized_) == resized_

RedrawRequested(interaction) ==
  /\ phase = "render"
  /\ control_flow' = "Wait"
  /\ IF reallocation_due(resized)
     THEN /\ pixbuf' = new_supported(size.width, size.height)
          /\ draw_target' = DrawTarget_new(size.width, size.height)
          /\ resized' = FALSE
          /\ reallocations' = 1
     ELSE /\ reallocations' = 0
          /\ UNCHANGED <<pixbuf, draw_target, resized>>
  /\ cursor_icon' = mouse_interaction(interaction)
  /\ redraw_requested' = FALSE
  /\ phase' = PhaseAfter(control_flow', "intake")
  /\ handled' = [kind |-> "RedrawRequested"]
  /\ drained' = << >>
  /\ update_args' = << >>
  /\ update_calls' = 0
  /\ redraw_requests' = 0
  /\ render_resizes' = resizes
  /\ resizes' = << >>
  /\ render_updated' = updated
  /\ updated' = FALSE
  /\ UNCHANGED <<size, viewport, cursor_position, modifiers, queued_events,
                 scale_factor, inner_size, batch, batch_closed, closed,
                 reported_modifiers, reported_cursor, conv_vars, copy_vars>>

(***************************************************************************)
(* main.rs line 132: any other event (NewEvents, RedrawEventsCleared, ...). *)
(* Only line 49 runs.  One such event is delivered between two batches.    *)
(***************************************************************************)
OtherEvent ==
  /\ phase = "intake"
  /\ batch_closed \/ batch = << >>
  /\ handled.kind # "NewEvents"
  /\ control_flow' = "Wait"
  /\ phase' = PhaseAfter(control_flow', "intake")
  /\ handled' = [kind |-> "NewEvents"]
  /\ drained' = << >>
  /\ update_args' = << >>
  /\ update_calls' = 0
  /\ redraw_requests' = 0
  /\ reallocations' = 0
  /\ UNCHANGED <<size, viewport, cursor_position, modifiers, pixbuf, draw_target,
                 resized, queued_events, scale_factor, inner_size, redraw_requested,
                 cursor_icon, batch, batch_closed,
                 resizes, render_resizes, updated, render_updated, closed,
                 reported_modifiers, reported_cursor, conv_vars, copy_vars>>

Next ==
  \/ \E event \in LoopWindowEvents : WindowEvent(event)
  \/ MainEventsCleared
  \/ \E interaction \in LoopInteractions : RedrawRequested(interaction)
  \/ OtherEvent

Spec == Init /\ [][Next]_vars


(***************************************************************************)
(* Properties of the frame loop, checked under Spec.                       *)
(***************************************************************************)
\* The abstract events a batch translates to, in arrival order.
RECURSIVE TranslatedEvents(_)
TranslatedEvents(b) ==
  IF b = << >> THEN << >>
  ELSE window_event(b[1].event, b[1].scale_factor, b[1].modifiers)
         \o TranslatedEvents(Tail(b))

\* C1: the events pending in the queue are exactly the translations of the
\* window events of the batch still open, in arrival order; at the batch's
\* events-cleared signal one update call drains exactly that sequence (no call
\* when it is empty), and nothing stays queued for a later drain.
C1_QueueDrain ==
  /\ ~batch_closed => queued_events = TranslatedEvents(batch)
  /\ batch_closed => queued_events = << >>
  /\ handled.kind = "MainEventsCleared" =>
       /\ drained = TranslatedEvents(batch)
       /\ update_calls = IF drained = << >> THEN 0 ELSE 1
  /\ handled.kind # "MainEventsCleared" => update_calls = 0 /\ drained = << >>

\* A batch of two window events of different kinds has been drained, in
\* arrival order, by one update call.
C1_Witness ==
  /\ handled.kind = "MainEventsCleared"
  /\ update_calls = 1
  /\ Len(batch) >= 2
  /\ batch[1].event.kind = "CursorMoved"
  /\ batch[2].event.kind = "KeyboardInput"
  /\ Len(drained) = 2
  /\ drained[1].kind = "Mouse.CursorMoved"
  /\ drained[2].kind = "Keyboard.KeyReleased"
  /\ queued_events = << >>

\* C2: a render phase that follows n >= 1 Resized events reallocates the
\* buffer and the draw target once, to the size of the last of them; a render
\* phase that follows none reallocates nothing.
C2_ReallocateOnce ==
  handled.kind = "RedrawRequested" =>
    IF render_resizes # << >>
    THEN /\ reallocations = 1
         /\ pixbuf = [width  |-> render_resizes[Len(render_resizes)].width,
                      height |-> render_resizes[Len(render_resizes)].height]
         /\ draw_target = pixbuf
    ELSE reallocations = 0

\* A render phase after two Resized events of different sizes.
C2_Witness ==
  /\ handled.kind = "RedrawRequested"
  /\ Len(render_resizes) >= 2
  /\ render_resizes[1] # render_resizes[Len(render_resizes)]
  /\ reallocations = 1

\* C3: every render phase finds that an update call has happened since the
\* previous render phase (since start-up for the first).
C3_RedrawAfterUpdate ==
  handled.kind = "RedrawRequested" => render_updated

\* A render phase has run, after an update.
C3_Witness ==
  /\ handled.kind = "RedrawRequested"
  /\ render_updated
  /\ ~updated

\* C4: once a CloseRequested event has been handled it is the last event the
\* callback handled and the last one translated, that callback made no update
\* call, no redraw request and no reallocation, the loop has terminated and
\* the control flow is Exit.
C4_CloseTerminates ==
  closed =>
    /\ control_flow = "Exit"
    /\ phase = "terminated"
    /\ handled.kind = "CloseRequested"
    /\ batch[Len(batch)].event.kind = "CloseRequested"
    /\ ~batch_closed
    /\ update_calls = 0
    /\ redraw_requests = 0
    /\ reallocations = 0

\* A close request handled while events are still queued.
C4_Witness ==
  /\ closed
  /\ queued_events # << >>
  /\ control_flow = "Exit"

\* C5 (as claimed): after a Resized and after a ScaleFactorChanged event the
\* viewport holds the size carried by the event and the window's scale
\* factor, so that at every update and render phase its logical size is the
\* window's physical size divided by the window's scale factor.
C5_ViewportFollowsWindow ==
  /\ handled.kind = "Resized" =>
       viewport = with_physical_size(handled.size, scale_factor)
  /\ handled.kind = "ScaleFactorChanged" =>
       viewport = with_physical_size(handled.new_inner_size, scale_factor)
  /\ handled.kind \in {"MainEventsCleared", "RedrawRequested"} =>
       logical_size(viewport) =
         [width  |-> Rat(inner_size.width, scale_factor),
          height |-> Rat(inner_size.height, scale_factor)]

\* C10: an events-cleared signal that finds the queue empty makes no update
\* call and no redraw request, and leaves the queue, the cursor position, the
\* modifiers, the viewport, the dirty flag, the buffer and the draw target as
\* they were.
C10_EmptyQueueIsNoOp ==
  [][(phase = "intake" /\ handled'.kind = "MainEventsCleared"
        /\ queued_events = << >>)
       => /\ update_calls' = 0
          /\ redraw_requests' = 0
          /\ UNCHANGED <<queued_events, cursor_position, modifiers, viewport,
                         resized, pixbuf, draw_target, size, redraw_requested>>]_vars

\* An events-cleared signal after a batch whose events were all dropped.
C10_Witness ==
  /\ handled.kind = "MainEventsCleared"
  /\ batch # << >>
  /\ update_calls = 0
  /\ redraw_requests = 0

\* The window-event kinds that window_event lists.
ListedKinds ==
  {"Resized", "ScaleFactorChanged", "CursorMoved", "MouseInput", "MouseWheel",
   "ReceivedCharacter", "KeyboardInput", "ModifiersChanged", "HoveredFile",
   "DroppedFile", "HoveredFileCancelled"}

\* The window events for which the translation is said to yield nothing.
YieldsNothing(event) ==
  \/ event.kind = "CloseRequested"
  \/ event.kind \notin ListedKinds
  \/ /\ event.kind = "KeyboardInput"
     /\ \/ event.virtual_keycode = None
        \/ event.virtual_keycode \in {Some("Asterisk"), Some("Plus")}
  \/ /\ event.kind = "ReceivedCharacter"
     /\ \/ event.c \in 57344 .. 63743
        \/ event.c \in 983040 .. 1048573
        \/ event.c \in 1048576 .. 1114109

\* C12: handling one window event appends exactly one abstract event, its
\* translation, at the tail of the queue when the translation yields an
\* event, and leaves the queue unchanged when it yields nothing
\* (CloseRequested, an unmapped or absent key identity, a private-use
\* character, an unlisted kind); the entries already queued stay as they are.
C12_IntakeAppends ==
  [][handled' \in LoopWindowEvents =>
       IF YieldsNothing(handled')
       THEN queued_events' = queued_events
       ELSE /\ Len(queued_events') = Len(queued_events) + 1
            /\ SubSeq(queued_events', 1, Len(queued_events)) = queued_events
            /\ Some(queued_events'[Len(queued_events')]) =
                 window_event(handled', scale_factor', modifiers')]_vars

\* A CursorMoved has been queued and the private-use character that followed
\* it has left the queue as it was.
C12_Witness ==
  /\ Len(batch) = 2
  /\ ~batch_closed
  /\ batch[1].event.kind = "CursorMoved"
  /\ handled = [kind |-> "ReceivedCharacter", c |-> PUA_BMP_FIRST]
  /\ Len(queued_events) = 1
  /\ queued_events[1].kind = "Mouse.CursorMoved"

\* C13: a Resized event sets the dirty flag and updates the tracked size and
\* the viewport but leaves the backing buffer and the draw target untouched;
\* intake and update never reallocate; the render phase reallocates exactly
\* when the dirty flag is set, and leaves the flag cleared.
C13_ReallocateOnlyInRender ==
  [][/\ (handled' \in LoopWindowEvents /\ handled'.kind = "Resized") =>
          /\ resized'
          /\ size' = handled'.size
          /\ viewport'.physical_size = handled'.size
          /\ viewport'.scale_factor = scale_factor'
     /\ handled'.kind # "RedrawRequested" =>
          /\ reallocations' = 0
          /\ UNCHANGED <<pixbuf, draw_target>>
     /\ handled'.kind = "RedrawRequested" =>
          /\ reallocations' = (IF resized THEN 1 ELSE 0)
          /\ ~resized => UNCHANGED <<pixbuf, draw_target>>
          /\ ~resized']_vars

\* A Resized event has just been handled: the flag is set, size and viewport
\* have the new size, and the buffer and draw target still have the old one.
C13_Witness ==
  /\ handled.kind = "Resized"
  /\ resized
  /\ size = handled.size
  /\ viewport.physical_size = handled.size
  /\ reallocations = 0
  /\ pixbuf # new_supported(size.width, size.height)
  /\ draw_target # DrawTarget_new(size.width, size.height)

\* C14 (as claimed): in every render phase, after the reallocation step, the
\* backing buffer and the draw target have the dimensions of the current
\* physical window size, the size most recently reported by a Resized or a
\* ScaleFactorChanged event (the initial inner size if there was none).
C14_BuffersFollowWindow ==
  handled.kind = "RedrawRequested" =>
    /\ pixbuf.width = inner_size.width
    /\ pixbuf.height = inner_size.height
    /\ draw_target.width = inner_size.width
    /\ draw_target.height = inner_size.height

(***************************************************************************)
(* The translation layer applied on its own: one conversion per step, its  *)
(* arguments drawn from the sets below.                                    *)
(***************************************************************************)
ConvSizes == PhysicalSizes \cup { [width |-> 800, height |-> 600] }

\* Physical coordinates: small ones, the documented example, and the first
\* integer an f32 cannot hold.
ConvCoordinates ==
  (-1 .. MaxDim) \cup {50, 100, Pow2(F32_MANTISSA_DIGITS) + 1}

ConvPositions == [x : ConvCoordinates, y : ConvCoordinates]

\* Characters around the ends of the three private-use ranges.
ConvChars ==
  { c \in UNION { (b - CharRadius) .. (b + CharRadius) :
                    b \in {PUA_BMP_FIRST, PUA_BMP_LAST, PUA_A_FIRST, PUA_A_LAST,
                           PUA_B_FIRST, PUA_B_LAST} } : IsChar(c) }
    \cup {65, 55295, 1114111}

\* MouseScrollDelta: LineDelta carries two f32, PixelDelta a position of
\* two f64 (here with the first integer an f32 cannot hold).
ConvDeltas ==
  [unit : {"LineDelta"},
   x : {FromInt(-1), Rat(1, 2)},
   y : {FromInt(0), FromInt(Pow2(F32_MANTISSA_DIGITS))}]
    \cup [unit : {"PixelDelta"},
          x : {FromInt(-1), Rat(1, 2)},
          y : {FromInt(0), FromInt(Pow2(F32_MANTISSA_DIGITS) + 1)}]

ConvWindowEvents ==
  { [kind |-> "Resized", size |-> s] : s \in ConvSizes }
    \cup { [kind |-> "ScaleFactorChanged", scale_factor |-> f, new_inner_size |-> s] :
             f \in ScaleFactors, s \in ConvSizes }
    \cup { [kind |-> "CursorMoved", position |-> p] : p \in ConvPositions }
    \cup { [kind |-> "MouseInput", button |-> b, state |-> s] :
             b \in MouseButtons, s \in ElementState }
    \cup { [kind |-> "MouseWheel", delta |-> d] : d \in ConvDeltas }
    \cup { [kind |-> "ReceivedCharacter", c |-> c] : c \in ConvChars }
    \cup { [kind |-> "KeyboardInput", virtual_keycode |-> k, state |-> s] :
             k \in {None} \cup { Some(v) : v \in VirtualKeyCode },
             s \in ElementState }
    \cup { [kind |-> "ModifiersChanged", modifiers |-> m] : m \in SUBSET ModifierFlags }
    \cup { [kind |-> k, path |-> "/tmp/a"] : k \in {"HoveredFile", "DroppedFile"} }
    \cup { [kind |-> k] : k \in {"HoveredFileCancelled", "CloseRequested", "Destroyed"} }
    \cup { [kind |-> "Focused", focused |-> b] : b \in BOOLEAN }

\* The arguments of one conversion.
ConvInputs ==
  { [op |-> "window_event", event |-> event, scale_factor |-> f, modifiers |-> m] :
      event \in ConvWindowEvents, f \in ScaleFactors, m \in SUBSET ModifierFlags }
    \cup { [op |-> "mouse_interaction", interaction |-> i] : i \in Interaction }

InitConv ==
  /\ InitLoop(CHOOSE s \in WindowSizes : TRUE, CHOOSE f \in LoopScaleFactors : TRUE)
  /\ conv_in \in ConvInputs
  /\ conv_done = FALSE
  /\ conv_out = << >>
  /\ copy_in = [op |-> "none"]
  /\ copy_done = FALSE
  /\ copy_out = << >>

TranslateWindowEvent ==
  /\ conv_in.op = "window_event"
  /\ ~conv_done
  /\ conv_done' = TRUE
  /\ conv_out' = window_event(conv_in.event, conv_in.scale_factor, conv_in.modifiers)
  /\ UNCHANGED <<conv_in, loop_vars, window_vars, history_vars, copy_vars>>

TranslateInteraction ==
  /\ conv_in.op = "mouse_interaction"
  /\ ~conv_done
  /\ conv_done' = TRUE
  /\ conv_out' = mouse_interaction(conv_in.interaction)
  /\ UNCHANGED <<conv_in, loop_vars, window_vars, history_vars, copy_vars>>

NextConv == TranslateWindowEvent \/ TranslateInteraction

SpecConv == InitConv /\ [][NextConv]_vars

(***************************************************************************)
(* Properties of the translation layer, checked under SpecConv.            *)
(***************************************************************************)
\* The conversion applied was window_event, on an event of the given kind.
Translated(kind) ==
  /\ conv_done
  /\ conv_in.op = "window_event"
  /\ conv_in.event.kind = kind

\* C6: a KeyboardInput event with a virtual-key identity other than Asterisk
\* and Plus yields KeyPressed when the element state is Pressed and KeyReleased
\* when it is Released, with the KeyCode key_code gives for the identity; with
\* Asterisk, Plus or no identity it yields nothing.  key_code is None on
\* exactly Asterisk and Plus.
C6_KeyboardInput ==
  Translated("KeyboardInput") =>
    LET vk == conv_in.event.virtual_keycode
    IN  IF IsSome(vk) /\ Unwrap(vk) \notin {"Asterisk", "Plus"}
        THEN /\ IsSome(key_code(Unwrap(vk)))
             /\ IsSome(conv_out)
             /\ conv_in.event.state = "Pressed" =>
                  Unwrap(conv_out).kind = "Keyboard.KeyPressed"
             /\ conv_in.event.state = "Released" =>
                  Unwrap(conv_out).kind = "Keyboard.KeyReleased"
             /\ Unwrap(conv_out).key_code = Unwrap(key_code(Unwrap(vk)))
        ELSE /\ conv_out = None
             /\ IsSome(vk) => key_code(Unwrap(vk)) = None

\* A key release has been translated to KeyReleased.
C6_Witness ==
  /\ Translated("KeyboardInput")
  /\ conv_in.event.virtual_keycode = Some("Return")
  /\ conv_in.event.state = "Released"
  /\ IsSome(conv_out)
  /\ Unwrap(conv_out).kind = "Keyboard.KeyReleased"
  /\ Unwrap(conv_out).key_code = "Enter"

\* C7: ReceivedCharacter(c) yields nothing exactly when c lies in
\* U+E000..U+F8FF, U+F0000..U+FFFFD or U+100000..U+10FFFD, ends included, and
\* CharacterReceived(c) for every other c.
C7_PrivateUse ==
  Translated("ReceivedCharacter") =>
    LET c == conv_in.event.c
    IN  IF \/ (57344 <= c /\ c <= 63743)
           \/ (983040 <= c /\ c <= 1048573)
           \/ (1048576 <= c /\ c <= 1114109)
        THEN conv_out = None
        ELSE conv_out = Some([kind |-> "Keyboard.CharacterReceived", c |-> c])

\* The last code point of a private-use range has been suppressed.
C7_Witness ==
  /\ Translated("ReceivedCharacter")
  /\ conv_in.event.c = 1048573
  /\ conv_out = None

\* The rational r equals p / s.
IsQuotient(r, p, s) == r.n * s = p * r.d

\* Number of binary digits of a > 0.
RECURSIVE BitLength(_)
BitLength(a) == IF a = 0 THEN 0 ELSE 1 + BitLength(a \div 2)

\* a > 0 without its factors of two.
RECURSIVE OddPart(_)
OddPart(a) == IF a % 2 = 0 THEN OddPart(a \div 2) ELSE a

\* The dyadic rational r is a single-precision value: its significand has at
\* most 24 binary digits.
IsF32(r) == r.n = 0 \/ BitLength(OddPart(Abs(r.n))) <= 24

\* r is p / s rounded to single precision: r is a single-precision value no
\* further from p / s than half the spacing of such values at p / s.
IsQuotientAsF32(r, p, s) ==
  IF BitLength(Abs(p)) <= 24
  THEN IsQuotient(r, p, s)
  ELSE /\ IsF32(r)
       /\ 2 * Abs(r.n * s - p * r.d) <= Pow2(BitLength(Abs(p)) - 24) * r.d

\* C8 (as claimed): Resized(w,h) and ScaleFactorChanged with new inner size
\* (w,h) yield Window.Resized{w/s, h/s}, and CursorMoved(x,y) yields
\* Mouse.CursorMoved{x/s, y/s}.
C8_ExactQuotients ==
  /\ Translated("Resized") =>
       /\ IsSome(conv_out)
       /\ Unwrap(conv_out).kind = "Window.Resized"
       /\ IsQuotient(Unwrap(conv_out).width, conv_in.event.size.width,
                     conv_in.scale_factor)
       /\ IsQuotient(Unwrap(conv_out).height, conv_in.event.size.height,
                     conv_in.scale_factor)
  /\ Translated("ScaleFactorChanged") =>
       /\ IsSome(conv_out)
       /\ Unwrap(conv_out).kind = "Window.Resized"
       /\ IsQuotient(Unwrap(conv_out).width, conv_in.event.new_inner_size.width,
                     conv_in.scale_factor)
       /\ IsQuotient(Unwrap(conv_out).height, conv_in.event.new_inner_size.height,
                     conv_in.scale_factor)
  /\ Translated("CursorMoved") =>
       /\ IsSome(conv_out)
       /\ Unwrap(conv_out).kind = "Mouse.CursorMoved"
       /\ IsQuotient(Unwrap(conv_out).x, conv_in.event.position.x,
                     conv_in.scale_factor)
       /\ IsQuotient(Unwrap(conv_out).y, conv_in.event.position.y,
                     conv_in.scale_factor)

\* C8 (amended): Resized(w,h) and ScaleFactorChanged with new inner size (w,h)
\* yield Window.Resized{w/s, h/s}; CursorMoved(x,y) yields Mouse.CursorMoved
\* with x/s and y/s rounded to single precision, which is x/s and y/s
\* whenever x and y have at most 24 binary digits.
C8_QuotientsAsF32 ==
  /\ Translated("Resized") =>
       /\ IsSome(conv_out)
       /\ Unwrap(conv_out).kind = "Window.Resized"
       /\ IsQuotient(Unwrap(conv_out).width, conv_in.event.size.width,
                     conv_in.scale_factor)
       /\ IsQuotient(Unwrap(conv_out).height, conv_in.event.size.height,
                     conv_in.scale_factor)
  /\ Translated("ScaleFactorChanged") =>
       /\ IsSome(conv_out)
       /\ Unwrap(conv_out).kind = "Window.Resized"
       /\ IsQuotient(Unwrap(conv_out).width, conv_in.event.new_inner_size.width,
                     conv_in.scale_factor)
       /\ IsQuotient(Unwrap(conv_out).height, conv_in.event.new_inner_size.height,
                     conv_in.scale_factor)
  /\ Translated("CursorMoved") =>
       /\ IsSome(conv_out)
       /\ Unwrap(conv_out).kind = "Mouse.CursorMoved"
       /\ IsQuotientAsF32(Unwrap(conv_out).x, conv_in.event.position.x,
                          conv_in.scale_factor)
       /\ IsQuotientAsF32(Unwrap(conv_out).y, conv_in.event.position.y,
                          conv_in.scale_factor)

\* The cursor position (100, 2^24 + 1) at scale factor 2 has been translated
\* to (50, 2^23): the first coordinate is exact, the second one rounded.
C8_Witness ==
  /\ Translated("CursorMoved")
  /\ conv_in.scale_factor = 2
  /\ conv_in.event.position = [x |-> 100, y |-> 16777217]
  /\ Unwrap(conv_out).x = [n |-> 50, d |-> 1]
  /\ Unwrap(conv_out).y = [n |-> 8388608, d |-> 1]

\* C9: mouse_interaction gives each of the 9 interaction hints its cursor
\* shape, and no other hint is given the same shape.
C9_MouseInteraction ==
  (conv_done /\ conv_in.op = "mouse_interaction") =>
    /\ Cardinality(Interaction) = 9
    /\ conv_out =
         (CASE conv_in.interaction = "Idle" -> "Default"
            [] conv_in.interaction = "Pointer" -> "Hand"
            [] conv_in.interaction = "Working" -> "Progress"
            [] conv_in.interaction = "Grab" -> "Grab"
            [] conv_in.interaction = "Grabbing" -> "Grabbing"
            [] conv_in.interaction = "Crosshair" -> "Crosshair"
            [] conv_in.interaction = "Text" -> "Text"
            [] conv_in.interaction = "ResizingHorizontally" -> "EwResize"
            [] conv_in.interaction = "ResizingVertically" -> "NsResize")
    /\ \A other \in Interaction \ {conv_in.interaction} :
         mouse_interaction(other) # conv_out

\* The hint of a vertical resize has been mapped.
C9_Witness ==
  /\ conv_done
  /\ conv_in.op = "mouse_interaction"
  /\ conv_in.interaction = "ResizingVertically"
  /\ conv_out = "NsResize"


\* r is the rational q rounded to single precision: q itself when its
\* numerator has at most 24 binary digits, else an f32 within half a unit
\* in the last place of q.
IsRoundedToF32(r, q) ==
  IF BitLength(Abs(q.n)) <= 24
  THEN r = q
  ELSE /\ IsF32(r)
       /\ 2 * Abs(r.n * q.d - q.n * r.d) <= Pow2(BitLength(Abs(q.n)) - 24) * r.d

\* The translation of the MouseWheel event at hand does not depend on the
\* scale factor or on the modifiers.
MouseWheelIgnoresScale ==
  \A f \in ScaleFactors, m \in SUBSET ModifierFlags :
    window_event(conv_in.event, f, m) = conv_out

\* C11 (as claimed): MouseWheel yields Mouse.WheelScrolled with the unit and
\* the x and y of the platform delta: LineDelta(x,y) gives Lines{x,y} and
\* PixelDelta(x,y) gives Pixels{x,y}, whatever the scale factor.
C11_SameDelta ==
  Translated("MouseWheel") =>
    /\ IsSome(conv_out)
    /\ Unwrap(conv_out).kind = "Mouse.WheelScrolled"
    /\ Unwrap(conv_out).delta.unit =
         (IF conv_in.event.delta.unit = "LineDelta" THEN "Lines" ELSE "Pixels")
    /\ Unwrap(conv_out).delta.x = conv_in.event.delta.x
    /\ Unwrap(conv_out).delta.y = conv_in.event.delta.y
    /\ MouseWheelIgnoresScale

\* C11 (amended): MouseWheel yields Mouse.WheelScrolled with the unit of the
\* platform delta; LineDelta(x,y) gives Lines{x,y}, PixelDelta(x,y) gives
\* Pixels with x and y rounded to single precision; the result does not
\* depend on the scale factor.
C11_DeltaAsF32 ==
  Translated("MouseWheel") =>
    /\ IsSome(conv_out)
    /\ Unwrap(conv_out).kind = "Mouse.WheelScrolled"
    /\ conv_in.event.delta.unit = "LineDelta" =>
         /\ Unwrap(conv_out).delta.unit = "Lines"
         /\ Unwrap(conv_out).delta.x = conv_in.event.delta.x
         /\ Unwrap(conv_out).delta.y = conv_in.event.delta.y
    /\ conv_in.event.delta.unit = "PixelDelta" =>
         /\ Unwrap(conv_out).delta.unit = "Pixels"
         /\ IsRoundedToF32(Unwrap(conv_out).delta.x, conv_in.event.delta.x)
         /\ IsRoundedToF32(Unwrap(conv_out).delta.y, conv_in.event.delta.y)
    /\ MouseWheelIgnoresScale

\* The pixel delta (1/2, 2^24 + 1) has been translated at scale factor 2 to
\* Pixels{1/2, 2^24}: the first coordinate is exact, the second one rounded.
C11_Witness ==
  /\ Translated("MouseWheel")
  /\ conv_in.scale_factor = 2
  /\ conv_in.event.delta = [unit |-> "PixelDelta", x |-> [n |-> 1, d |-> 2],
                            y |-> [n |-> 16777217, d |-> 1]]
  /\ Unwrap(conv_out).delta = [unit |-> "Pixels", x |-> [n |-> 1, d |-> 2],
                               y |-> [n |-> 16777216, d |-> 1]]


\* C19: MouseInput yields Mouse.ButtonPressed when the element state is
\* Pressed and Mouse.ButtonReleased when it is Released; Left, Right and
\* Middle map to the button of the same name and Other(n) to Other(n).
C19_MouseInput ==
  Translated("MouseInput") =>
    /\ IsSome(conv_out)
    /\ conv_in.event.state = "Pressed" =>
         Unwrap(conv_out).kind = "Mouse.ButtonPressed"
    /\ conv_in.event.state = "Released" =>
         Unwrap(conv_out).kind = "Mouse.ButtonReleased"
    /\ \A name \in {"Left", "Right", "Middle"} :
         conv_in.event.button = <<name>> => Unwrap(conv_out).button = <<name>>
    /\ \A n \in 0 .. MaxOtherButton :
         conv_in.event.button = <<"Other", n>> =>
           Unwrap(conv_out).button = <<"Other", n>>

\* The release of the numbered button Other(MaxOtherButton) has been
\* translated.
C19_Witness ==
  /\ Translated("MouseInput")
  /\ conv_in.event.state = "Released"
  /\ conv_in.event.button = <<"Other", MaxOtherButton>>
  /\ MaxOtherButton > 0
  /\ conv_out = Some([kind   |-> "Mouse.ButtonReleased",
                      button |-> <<"Other", MaxOtherButton>>])


(***************************************************************************)
(* Further properties of the frame loop, checked under Spec.               *)
(***************************************************************************)
\* The abstract event queued last.
LastQueued == queued_events[Len(queued_events)]

\* C15: a translated KeyPressed or KeyReleased carries, flag by flag (shift,
\* control, alt, logo), the state of the most recent ModifiersChanged event
\* before it (all false if there was none); a translated ModifiersChanged
\* carries the flags of its platform event; the tracked modifiers are those
\* of the most recent ModifiersChanged, never a merge with earlier ones.
C15_ModifiersFollowPlatform ==
  /\ modifiers = reported_modifiers
  /\ (handled.kind = "KeyboardInput" /\ ~YieldsNothing(handled)) =>
       /\ LastQueued.kind \in {"Keyboard.KeyPressed", "Keyboard.KeyReleased"}
       /\ LastQueued.modifiers.shift = ("SHIFT" \in reported_modifiers)
       /\ LastQueued.modifiers.control = ("CTRL" \in reported_modifiers)
       /\ LastQueued.modifiers.alt = ("ALT" \in reported_modifiers)
       /\ LastQueued.modifiers.logo = ("LOGO" \in reported_modifiers)
  /\ handled.kind = "ModifiersChanged" =>
       /\ LastQueued.kind = "Keyboard.ModifiersChanged"
       /\ LastQueued.modifiers.shift = ("SHIFT" \in handled.modifiers)
       /\ LastQueued.modifiers.control = ("CTRL" \in handled.modifiers)
       /\ LastQueued.modifiers.alt = ("ALT" \in handled.modifiers)
       /\ LastQueued.modifiers.logo = ("LOGO" \in handled.modifiers)

\* A key release translated right after ModifiersChanged(CTRL | ALT): it
\* carries control and alt and neither shift nor logo.
C15_Witness ==
  /\ Len(batch) = 2
  /\ ~batch_closed
  /\ batch[1].event = [kind |-> "ModifiersChanged", modifiers |-> {"CTRL", "ALT"}]
  /\ handled = [kind |-> "KeyboardInput", virtual_keycode |-> Some("Back"),
                state |-> "Released"]
  /\ LastQueued.kind = "Keyboard.KeyReleased"
  /\ LastQueued.modifiers =
       [shift |-> FALSE, control |-> TRUE, alt |-> TRUE, logo |-> FALSE]

\* C16: at every update call the cursor position passed is the physical
\* position of the most recent CursorMoved event (initially (-1,-1)) divided
\* by the viewport's scale factor, and the viewport size passed is the logical
\* size of the current viewport; the tracked cursor position is the physical
\* position of the most recent CursorMoved event.
C16_UpdateArguments ==
  /\ cursor_position = reported_cursor
  /\ update_calls = 1 =>
       /\ Len(update_args) = 1
       /\ IsQuotient(update_args[1].cursor_position.x, reported_cursor.x,
                     viewport.scale_factor)
       /\ IsQuotient(update_args[1].cursor_position.y, reported_cursor.y,
                     viewport.scale_factor)
       /\ IsQuotient(update_args[1].viewport_size.width,
                     viewport.physical_size.width, viewport.scale_factor)
       /\ IsQuotient(update_args[1].viewport_size.height,
                     viewport.physical_size.height, viewport.scale_factor)

\* An update call at viewport scale factor 2 after the cursor moved to (1,2):
\* it was passed the cursor position (1/2, 1).
C16_Witness ==
  /\ update_calls = 1
  /\ viewport.scale_factor = 2
  /\ reported_cursor = [x |-> 1, y |-> 2]
  /\ update_args[1].cursor_position = [x |-> [n |-> 1, d |-> 2], y |-> [n |-> 1, d |-> 1]]


\* C17: an events-cleared signal that finds the queue non-empty makes exactly
\* one update call, which is handed all the queued events and leaves the queue
\* empty, and exactly one redraw request, however many events were queued.
C17_OneUpdateOneRedraw ==
  [][(phase = "intake" /\ handled'.kind = "MainEventsCleared"
        /\ queued_events # << >>)
       => /\ update_calls' = 1
          /\ drained' = queued_events
          /\ queued_events' = << >>
          /\ redraw_requests' = 1
          /\ redraw_requested']_vars

\* An events-cleared signal has found two events queued: one update call
\* took both and one redraw was requested.
C17_Witness ==
  /\ handled.kind = "MainEventsCleared"
  /\ Len(drained) = 2
  /\ update_calls = 1
  /\ queued_events = << >>
  /\ redraw_requests = 1
  /\ redraw_requested


\* C20: whenever the dirty flag is false, the backing buffer and the draw
\* target have the width and height of the tracked size; the pixel copy of a
\* render phase runs with the flag false, so its row length size.width is the
\* width of both and size.height is their number of rows.
C20_CleanFlagMeansSized ==
  /\ ~resized =>
       /\ pixbuf.width = size.width
       /\ pixbuf.height = size.height
       /\ draw_target.width = size.width
       /\ draw_target.height = size.height
  /\ handled.kind = "RedrawRequested" => ~resized

\* A render phase has reallocated after a Resized event that changed the size:
\* the flag is clear and the buffer and draw target have the new size.
C20_Witness ==
  /\ handled.kind = "RedrawRequested"
  /\ ~resized
  /\ Len(render_resizes) = 1
  /\ size = render_resizes[1]
  /\ reallocations = 1
  /\ pixbuf = new_supported(size.width, size.height)
  /\ draw_target = DrawTarget_new(size.width, size.height)


(***************************************************************************)
(* The frame loop on a platform that delivers an events-cleared signal     *)
(* after every batch of window events and a RedrawRequested event after    *)
(* every redraw request.                                                   *)
(***************************************************************************)
SpecLive ==
  /\ Init
  /\ [][Next]_vars
  /\ WF_vars(MainEventsCleared)
  /\ WF_vars(\E interaction \in LoopInteractions : RedrawRequested(interaction))

\* A render phase has just reallocated the backing buffer and the draw target
\* to the size of the latest Resized event.
ReallocatedToLatest ==
  /\ handled.kind = "RedrawRequested"
  /\ reallocations = 1
  /\ ~resized
  /\ render_resizes # << >>
  /\ size = render_resizes[Len(render_resizes)]
  /\ pixbuf = new_supported(size.width, size.height)
  /\ draw_target = DrawTarget_new(size.width, size.height)

\* C21: whenever the dirty flag is set, the event queue is non-empty or a
\* redraw request is outstanding; and, on a platform that delivers the
\* events-cleared signal and the requested redraws, a set dirty flag leads,
\* unless a close request arrives, to a render phase that reallocates the
\* backing buffer to the latest resized size.
C21_ResizeLeadsToReallocation ==
  /\ [](resized => (queued_events # << >> \/ redraw_requested))
  /\ (resized /\ ~closed) ~> (closed \/ ReallocatedToLatest)

\* The dirty flag is set, the update call has drained the queue and the
\* redraw it requested is outstanding.
C21_Witness ==
  /\ resized
  /\ ~closed
  /\ queued_events = << >>
  /\ redraw_requested
  /\ phase = "render"
  /\ pixbuf # new_supported(size.width, size.height)

\* C22 (as claimed): at every update call the scale factor of the viewport
\* equals the window scale factor under which each event drained by the call
\* was translated; hence, when the last event of the batch is a CursorMoved,
\* the coordinates of its translation equal the cursor position passed to
\* the same update call.
C22_ScaleFactorsAgree ==
  update_calls = 1 =>
    /\ \A i \in 1 .. Len(batch) : batch[i].scale_factor = viewport.scale_factor
    /\ batch[Len(batch)].event.kind = "CursorMoved" =>
         /\ drained[Len(drained)].kind = "Mouse.CursorMoved"
         /\ drained[Len(drained)].x = update_args[1].cursor_position.x
         /\ drained[Len(drained)].y = update_args[1].cursor_position.y

(***************************************************************************)
(* main.rs lines 118-126: the pixel copy of the render phase, applied on   *)
(* its own to a draw target whose pixels are drawn from the set below.     *)
(* A 32-bit pixel is kept as its two 16-bit halves, hi * 2^16 + lo.        *)
(***************************************************************************)
Min(a, b) == IF a < b THEN a ELSE b

\* slice::chunks_exact: the whole chunks of chunk_size elements, in order.
chunks_exact(data, chunk_size) ==
  [i \in 1 .. (Len(data) \div chunk_size) |->
     SubSeq(data, (i - 1) * chunk_size + 1, i * chunk_size)]

\* u32::to_le_bytes: the four bytes, least significant first.
to_le_bytes(pixel) ==
  <<pixel.lo % 256, pixel.lo \div 256, pixel.hi % 256, pixel.hi \div 256>>

\* A destructuring that takes the bytes in the order r, g, b, a.
dst_pixel_rgba(src_pixel) ==
  LET bytes == to_le_bytes(src_pixel)
  IN  [b |-> bytes[3], g |-> bytes[2], r |-> bytes[1], a |-> bytes[4]]

\* Lines 123-124: let [b, g, r, a] = src_pixel.to_le_bytes(); BGRA { b, g, r, a }
dst_pixel(src_pixel) ==
  LET bytes == to_le_bytes(src_pixel)
  IN  [b |-> bytes[1], g |-> bytes[2], r |-> bytes[3], a |-> bytes[4]]

\* Line 122: the inner zip stops at the shorter of the two rows.
copy_row(dst_row, src_row) ==
  [j \in 1 .. Len(dst_row) |->
     IF j <= Min(Len(dst_row), Len(src_row)) THEN dst_pixel(src_row[j])
     ELSE dst_row[j]]

\* The writes of the loops from row i on, in the order they are made: each
\* names the buffer pixel written and the index in the draw target's data of
\* the pixel it was read from.
RECURSIVE copy_writes(_, _, _, _)
copy_writes(i, dst_rows, src_rows, chunk_size) ==
  IF i > Min(Len(dst_rows), Len(src_rows)) THEN << >>
  ELSE [j \in 1 .. Min(Len(dst_rows[i]), Len(src_rows[i])) |->
          [row |-> i, col |-> j, src |-> (i - 1) * chunk_size + j]]
         \o copy_writes(i + 1, dst_rows, src_rows, chunk_size)

\* Lines 118-126: rows_mut() zipped with chunks_exact(size.width).
pixel_copy(dst_rows, data, size_width) ==
  LET src_rows == chunks_exact(data, size_width)
  IN  [rows   |-> [i \in 1 .. Len(dst_rows) |->
                     IF i <= Min(Len(dst_rows), Len(src_rows))
                     THEN copy_row(dst_rows[i], src_rows[i])
                     ELSE dst_rows[i]],
       writes |-> copy_writes(1, dst_rows, src_rows, size_width)]

\* Pixels of the draw target: opaque white, an opaque colour with four
\* different bytes (0xFF123456), and a half-transparent one (0x800000FF).
CopyPixels ==
  { [hi |-> 65535, lo |-> 65535], [hi |-> 65298, lo |-> 13398],
    [hi |-> 32768, lo |-> 255] }

\* What the previous frame left in the backing buffer.
StalePixel == [b |-> 1, g |-> 1, r |-> 1, a |-> 1]

\* The state at the pixel-copy step: the dirty flag is false, so the backing
\* buffer and the draw target have the dimensions of size.
CopyInput(s, data) ==
  [size        |-> s,
   pixbuf      |-> [i \in 1 .. s.height |-> [j \in 1 .. s.width |-> StalePixel]],
   draw_target |-> [width |-> s.width, height |-> s.height, data |-> data]]

InitCopy ==
  /\ InitLoop(CHOOSE s \in WindowSizes : TRUE, CHOOSE f \in LoopScaleFactors : TRUE)
  /\ conv_in = [op |-> "none"]
  /\ conv_done = FALSE
  /\ conv_out = << >>
  /\ \E s \in PhysicalSizes :
       \E data \in [1 .. s.width * s.height -> CopyPixels] :
         copy_in = CopyInput(s, data)
  /\ copy_done = FALSE
  /\ copy_out = << >>

PixelCopy ==
  /\ ~copy_done
  /\ copy_done' = TRUE
  /\ copy_out' = pixel_copy(copy_in.pixbuf, copy_in.draw_target.data,
                            copy_in.size.width)
  /\ UNCHANGED <<copy_in, loop_vars, window_vars, history_vars, conv_vars>>

NextCopy == PixelCopy

SpecCopy == InitCopy /\ [][NextCopy]_vars

\* The writes of the copy made to the buffer pixel at row r, column c.
WritesTo(r, c) ==
  { k \in 1 .. Len(copy_out.writes) :
      copy_out.writes[k].row = r /\ copy_out.writes[k].col = c }

\* C18: after the pixel copy of a W x H draw target, for every row r and
\* column c the buffer pixel at (r,c) has as b, g, r, a the bytes 0, 1, 2, 3
\* (least significant first) of the 32-bit draw-target pixel at (r,c); every
\* buffer pixel has been written exactly once, from the draw-target pixel of
\* its own row and column.
C18_PixelCopy ==
  copy_done =>
    LET W == copy_in.draw_target.width
        H == copy_in.draw_target.height
        data == copy_in.draw_target.data
    IN  /\ Len(copy_out.rows) = H
        /\ Len(copy_out.writes) = W * H
        /\ \A r \in 1 .. H, c \in 1 .. W :
             LET src == data[(r - 1) * W + c]
                 dst == copy_out.rows[r][c]
             IN  /\ {dst.b, dst.g, dst.r, dst.a} \subseteq 0 .. 255
                 /\ dst.b + 256 * dst.g = src.lo
                 /\ dst.r + 256 * dst.a = src.hi
                 /\ Cardinality(WritesTo(r, c)) = 1
                 /\ \A k \in WritesTo(r, c) :
                      copy_out.writes[k].src = (r - 1) * W + c

\* A 2 x 2 draw target, white but for 0xFF123456 at row 2, column 1, has been
\* copied: the buffer pixel at row 2, column 1 is b = 0x56, g = 0x34, r = 0x12,
\* a = 0xFF.
C18_Witness ==
  /\ copy_done
  /\ copy_in.draw_target.width = 2
  /\ copy_in.draw_target.height = 2
  /\ copy_in.draw_target.data[3] = [hi |-> 65298, lo |-> 13398]
  /\ \A k \in {1, 2, 4} : copy_in.draw_target.data[k] = [hi |-> 65535, lo |-> 65535]
  /\ copy_out.rows[2][1] = [b |-> 86, g |-> 52, r |-> 18, a |-> 255]
  /\ copy_out.rows[1][2] = [b |-> 255, g |-> 255, r |-> 255, a |-> 255]

=============================================================================
